---- MODULE Spec2Model ----
(***************************************************************************)
(* Model of the Tensor buy/offer action handlers:                          *)
(*   src/examples/tensor/buy-offer-item/route.ts  (two handler sets: the   *)
(*       first, lines 1-226, builds transfers locally; the second, lines   *)
(*       228-503, delegates to the marketplace API),                       *)
(*   src/examples/tensor/buy-offer-item/transaction-utils.ts (pricing and  *)
(*       the buy flow of the second handler set),                          *)
(*   src/unnamed/part_000 (the local transfer builders the first handler   *)
(*       set imports).                                                     *)
(*                                                                         *)
(* JavaScript numbers are modelled exactly as decimal values               *)
(*     (-1)^neg * (whole + frac/10000) * (10^9)^e9                         *)
(* together with NaN and +-Infinity, so that a floating-point division     *)
(* that leaves a fraction is visible.  Every value the handlers compute    *)
(* from the modelled inputs is representable without rounding.             *)
(***************************************************************************)
EXTENDS Integers, Sequences, FiniteSets, TLC

VARIABLES
    calc,         \* a direct call of getTotalPrice: its arguments and result
    market,       \* the item as the marketplace data service holds it now
    chain,        \* the ledger's current blockhash
    req,          \* the HTTP request being served
    pc,           \* the handler's position (the await it is suspended at)
    itemDetails,  \* route handler's local: result of its getNftInfo
    builder,      \* locals of createBuyNftTransaction / createBidNftTransaction
    extcall,      \* arguments handed to getNftBuyTransaction / placeNftBid
    response,     \* the HTTP response, once sent
    caught,       \* the error the handler's catch block received, "" when none
    calls         \* external calls issued while serving the request, in order

vars == <<calc, market, chain, req, pc, itemDetails, builder, extcall, response, caught, calls>>

flowVars == <<market, chain, req, pc, itemDetails, builder, extcall, response, caught, calls>>

----------------------------------------------------------------------------
(* Bounds of the model *)

MaxPrice == 3
MaxBlock == 2

(* Program constants *)

TENSOR_FEE_BPS == 150
BPS_DENOMINATOR == 10000

----------------------------------------------------------------------------
(* JavaScript numbers *)

NaN == [k |-> "nan", neg |-> FALSE, whole |-> 0, frac |-> 0, e9 |-> 0]

Infinity(neg) == [k |-> "inf", neg |-> neg, whole |-> 0, frac |-> 0, e9 |-> 0]

\* zero has one representation (the sign of zero is not modelled)
Num(neg, whole, frac, e9) ==
    IF whole = 0 /\ frac = 0
    THEN [k |-> "num", neg |-> FALSE, whole |-> 0, frac |-> 0, e9 |-> 0]
    ELSE [k |-> "num", neg |-> neg, whole |-> whole, frac |-> frac, e9 |-> e9]

IntNum(n) == Num(FALSE, n, 0, 0)

isNaN(x) == x.k = "nan"

isFinite(x) == x.k = "num"

IsNegative(x) == x.k \in {"num", "inf"} /\ x.neg

\* x * bps / 10000 in floating point, for an integral x (e9 = 0, frac = 0):
\* the quotient keeps its fractional part
MulDivBps(x, bps) ==
    IF x.k = "nan" THEN NaN
    ELSE IF x.k = "inf" THEN (IF bps = 0 THEN NaN ELSE x)
    ELSE LET q == x.whole \div BPS_DENOMINATOR
             r == x.whole % BPS_DENOMINATOR
         IN  Num(x.neg, q * bps + ((r * bps) \div BPS_DENOMINATOR),
                 (r * bps) % BPS_DENOMINATOR, 0)

\* x + y for non-negative finite operands with e9 = 0, NaN-propagating
Add(x, y) ==
    IF x.k = "nan" \/ y.k = "nan" THEN NaN
    ELSE IF x.k = "inf" THEN x
    ELSE IF y.k = "inf" THEN y
    ELSE LET f == x.frac + y.frac
         IN  Num(FALSE, x.whole + y.whole + (f \div BPS_DENOMINATOR),
                 f % BPS_DENOMINATOR, 0)

\* x * LAMPORTS_PER_SOL: the factor 10^9 is kept as an exponent
MulLamportsPerSol(x) ==
    IF x.k # "num" THEN x
    ELSE Num(x.neg, x.whole, x.frac, x.e9 + 1)

\* the integer part of x (what truncating division would leave)
Trunc(x) == IF x.k = "num" /\ x.e9 = 0 THEN Num(x.neg, x.whole, 0, 0) ELSE x

----------------------------------------------------------------------------
(* Strings are sequences of one-character strings *)

Digits == <<"0", "1", "2", "3", "4", "5", "6", "7", "8", "9">>

IsDigit(c) == \E i \in 1..10 : Digits[i] = c

DigitVal(c) == (CHOOSE i \in 1..10 : Digits[i] = c) - 1

RECURSIVE DigitPrefixLen(_)
DigitPrefixLen(s) ==
    IF s = <<>> \/ ~IsDigit(Head(s)) THEN 0 ELSE 1 + DigitPrefixLen(Tail(s))

RECURSIVE DigitsValue(_)
DigitsValue(s) ==
    IF s = <<>> THEN 0 ELSE DigitsValue(SubSeq(s, 1, Len(s) - 1)) * 10 + DigitVal(s[Len(s)])

\* parseInt(s, 10) of an unsigned string: the leading digits, NaN when there are none
\* (parseInt(undefined) is NaN too: a missing price is the empty string here)
parseInt(s) ==
    LET n == DigitPrefixLen(s)
    IN  IF n = 0 THEN NaN ELSE IntNum(DigitsValue(SubSeq(s, 1, n)))

\* ToNumber(s), the coercion `string * number` applies: the whole string must be digits
ToNumber(s) ==
    IF s = <<>> THEN IntNum(0)
    ELSE IF DigitPrefixLen(s) = Len(s) THEN IntNum(DigitsValue(s)) ELSE NaN

\* the first four decimals of a digit string, as ten-thousandths
FracValue(s) ==
    LET d(i) == IF i <= Len(s) THEN DigitVal(s[i]) ELSE 0
    IN  d(1) * 1000 + d(2) * 100 + d(3) * 10 + d(4)

\* parseFloat(s): optional sign, then Infinity or digits [. digits]; the rest is ignored
parseFloat(s) ==
    LET neg  == s # <<>> /\ Head(s) = "-"
        body == IF s # <<>> /\ Head(s) \in {"-", "+"} THEN Tail(s) ELSE s
        n    == DigitPrefixLen(body)
        rest == SubSeq(body, n + 1, Len(body))
        m    == IF rest # <<>> /\ Head(rest) = "." THEN DigitPrefixLen(Tail(rest)) ELSE 0
    IN  IF body # <<>> /\ Head(body) = "Infinity" THEN Infinity(neg)
        ELSE IF n = 0 /\ m = 0 THEN NaN
        ELSE Num(neg, DigitsValue(SubSeq(body, 1, n)),
                 FracValue(SubSeq(rest, 2, m + 1)), 0)

\* JavaScript truthiness of a string-or-null value
Truthy(v) == v \notin {"undefined", "null", ""}

----------------------------------------------------------------------------
(* Pricing: transaction-utils.ts, getTotalPrice *)

marketPlaceFee(price) == MulDivBps(price, TENSOR_FEE_BPS)

royalty(price, royaltyBps, tokenStandard) ==
    IF Truthy(tokenStandard) THEN MulDivBps(price, royaltyBps) ELSE IntNum(0)

getTotalPrice(price, royaltyBps, tokenStandard) ==
    Add(Add(price, royalty(price, royaltyBps, tokenStandard)), marketPlaceFee(price))

----------------------------------------------------------------------------
(* Inputs *)

RECURSIVE ToDigits(_)
\* the decimal string of a natural number
ToDigits(n) ==
    IF n < 10 THEN <<Digits[n + 1]>> ELSE Append(ToDigits(n \div 10), Digits[(n % 10) + 1])

\* prices in lamports: the small ones, one whose fee has a fraction, and round ones
PricePoints == (0..MaxPrice) \cup {66, 10000, 1000000}

RoyaltyRates == {0, 333, 500, 10000}

TokenStandards == {"undefined", "null", "NonFungible"}

\* listing.price as the data service sends it: a decimal string, or missing (empty)
PriceStrings == {<<>>} \cup {ToDigits(n) : n \in (0..MaxPrice) \cup {66, 1000000}}

\* account identifiers: the text's alphabet and the number of bytes it decodes to
Address(name, base58, bytes) == [name |-> name, base58 |-> base58, bytes |-> bytes]

NoAddress == Address("", FALSE, 0)

Accounts == {Address("buyer", TRUE, 32), Address("buyer", FALSE, 32), Address("buyer", TRUE, 31)}

OnchainIds == {Address("mint", TRUE, 32), Address("mint", TRUE, 33)}

Seller == Address("seller", TRUE, 32)

Owner == Address("owner", TRUE, 32)

NoListing == [k |-> "none", price |-> <<>>, seller |-> NoAddress]

Listings == {NoListing} \cup {[k |-> "listing", price |-> p, seller |-> Seller] : p \in PriceStrings}

NoItem == [k |-> "none", onchainId |-> NoAddress, owner |-> NoAddress,
           sellRoyaltyFeeBPS |-> 0, tokenStandard |-> "null", listing |-> NoListing]

Items == [k : {"item"}, onchainId : OnchainIds, owner : {Owner},
          sellRoyaltyFeeBPS : {0, 500}, tokenStandard : {"null", "NonFungible"},
          listing : Listings]

\* offerAmount of the body-carried offer route: a JSON number (finite, of either sign)
OfferNumbers == {IntNum(0), Num(FALSE, 1, 5000, 0), Num(FALSE, 0, 1900, 0), Num(TRUE, 1, 0, 0)}

\* offerAmount of the path-carried offer route: text
OfferStrings == { <<>>, <<"a">>, <<"0">>, <<"1", ".", "5">>, <<"0", ".", "1", "9">>,
                  <<"-", "1">>, <<"Infinity">>, <<"-", "Infinity">> }

Requests ==
    [route : {"v1buy", "v2buy"}, account : Accounts, offerNumber : {NaN}, offerParam : {<<>>}]
    \cup [route : {"v1offer"}, account : Accounts, offerNumber : OfferNumbers, offerParam : {<<>>}]
    \cup [route : {"v2offer"}, account : Accounts, offerNumber : {NaN}, offerParam : OfferStrings]

----------------------------------------------------------------------------
(* Values the handlers build *)

NoTx == [k |-> "none"]

NoBuilder == [fn |-> "none", mint |-> NoAddress, buyer |-> NoAddress, amount |-> NaN,
              instructions |-> <<>>, blockhash |-> -1, itemDetails |-> NoItem,
              priced |-> FALSE, totalPrice |-> NaN, transaction |-> NoTx]

NoCall == [fn |-> "none", target |-> NoAddress, ownerAddress |-> NoAddress,
           buyerAddress |-> NoAddress, price |-> NaN, latestBlockhash |-> -1]

NoResponse == [status |-> 0, transaction |-> NoTx, message |-> ""]

\* new PublicKey(text) throws unless the text is base58 and decodes to 32 bytes
PublicKeyOk(a) == a.base58 /\ a.bytes = 32

\* whether SystemProgram.transfer encodes the amount or throws: a whole, non-negative
\* number of lamports is encoded; for any other number the library decides
TransferOutcomes(lamports) ==
    IF lamports.k = "num" /\ ~lamports.neg /\ (lamports.e9 > 0 \/ lamports.frac = 0)
    THEN {TRUE}
    ELSE BOOLEAN

\* SystemProgram.transfer({fromPubkey, toPubkey, lamports})
Transfer(from, to, lamports) == [fromPubkey |-> from, toPubkey |-> to, lamports |-> lamports]

\* as HasListingPrice, testing the listing only and not its price
HasListingOnly(item) == item.listing.k = "listing"

\* listing?.price is truthy: there is a listing and its price is a non-empty string
HasListingPrice(item) == item.listing.k = "listing" /\ item.listing.price # <<>>

----------------------------------------------------------------------------
(* Direct calls of the pricing function *)

NoCalc == [price |-> 0, royaltyBps |-> 0, tokenStandard |-> "null", done |-> FALSE, total |-> NaN]

CalcInputs == [price : PricePoints, royaltyBps : RoyaltyRates, tokenStandard : TokenStandards,
               done : {FALSE}, total : {NaN}]

InitPricing ==
    /\ calc \in CalcInputs
    /\ market = NoItem /\ chain = 0
    /\ req = [route |-> "none", account |-> NoAddress, offerNumber |-> NaN, offerParam |-> <<>>]
    /\ pc = "idle" /\ itemDetails = NoItem /\ builder = NoBuilder /\ extcall = NoCall
    /\ response = NoResponse /\ caught = "" /\ calls = <<>>

CallGetTotalPrice ==
    /\ ~calc.done
    /\ calc' = [calc EXCEPT !.done = TRUE,
                            !.total = getTotalPrice(IntNum(calc.price), calc.royaltyBps,
                                                    calc.tokenStandard)]
    /\ UNCHANGED flowVars

NextPricing == CallGetTotalPrice

SpecPricing == InitPricing /\ [][NextPricing]_vars

----------------------------------------------------------------------------
(* The request handlers.  An action runs a handler from one await to the   *)
(* next; the marketplace and the ledger move on in between.                *)

Init ==
    /\ calc = NoCalc
    /\ market \in {NoItem} \cup Items
    /\ chain = 0
    /\ req \in Requests
    /\ pc = "recv"
    /\ itemDetails = NoItem
    /\ builder = NoBuilder
    /\ extcall = NoCall
    /\ response = NoResponse
    /\ caught = ""
    /\ calls = <<>>

\* c.json(body, status) outside the catch block: the handler is over
Respond(status, transaction, message) ==
    /\ response' = [status |-> status, transaction |-> transaction, message |-> message]
    /\ caught' = caught
    /\ pc' = "done"

\* the catch block of every POST handler: the error e is logged, the answer is fixed
Respond500(e) ==
    /\ response' = [status |-> 500, transaction |-> NoTx,
                    message |-> "Failed to prepare transaction"]
    /\ caught' = e
    /\ pc' = "done"

\* as EnterTransferBuilder, with the recipient's key not validated
EnterTransferBuilderRecipientUnchecked(fn, mint, buyer, amount, lamports) ==
    LET entered == [NoBuilder EXCEPT !.fn = fn, !.mint = mint, !.buyer = buyer,
                                     !.amount = amount]
    IN  IF ~PublicKeyOk(buyer)
        THEN /\ builder' = entered
             /\ calls' = <<"getNftInfo">>
             /\ Respond500("InvalidAccount")
        ELSE \E encoded \in TransferOutcomes(lamports) :
               IF encoded
               THEN /\ builder' = [entered EXCEPT
                                     !.instructions = <<Transfer(buyer, mint, lamports)>>]
                    /\ calls' = <<"getNftInfo", "getLatestBlockhash">>
                    /\ response' = response /\ caught' = caught
                    /\ pc' = "prepare"
               ELSE /\ builder' = entered
                    /\ calls' = <<"getNftInfo">>
                    /\ Respond500("InvalidInstruction")

\* part_000: the synchronous part of createBuyNftTransaction / createBidNftTransaction,
\* up to the await inside prepareTransaction
EnterTransferBuilder(fn, mint, buyer, amount, lamports) ==
    LET entered == [NoBuilder EXCEPT !.fn = fn, !.mint = mint, !.buyer = buyer,
                                     !.amount = amount]
    IN  IF ~PublicKeyOk(buyer) \/ ~PublicKeyOk(mint)
        THEN /\ builder' = entered
             /\ calls' = <<"getNftInfo">>
             /\ Respond500("InvalidAccount")
        ELSE \E encoded \in TransferOutcomes(lamports) :
               IF encoded
               THEN /\ builder' = [entered EXCEPT
                                     !.instructions = <<Transfer(buyer, mint, lamports)>>]
                    /\ calls' = <<"getNftInfo", "getLatestBlockhash">>
                    /\ response' = response /\ caught' = caught
                    /\ pc' = "prepare"
               ELSE /\ builder' = entered
                    /\ calls' = <<"getNftInfo">>
                    /\ Respond500("InvalidInstruction")

\* part_000 createBuyNftTransaction(mint, buyer, price): lamports: price * LAMPORTS_PER_SOL
createBuyNftTransaction(mint, buyer, price) ==
    EnterTransferBuilder("createBuyNftTransaction", mint, buyer, price,
                         MulLamportsPerSol(price))

\* part_000 createBidNftTransaction(mint, bidder, amount): lamports: amount
createBidNftTransaction(mint, bidder, amount) ==
    EnterTransferBuilder("createBidNftTransaction", mint, bidder, amount, amount)

\* route.ts 86-141: POST /item/{itemId}/buy of the first handler set
V1Buy ==
    /\ pc = "recv" /\ req.route = "v1buy"
    /\ itemDetails' = market
    /\ IF market.k = "none"
       THEN Respond(422, NoTx, "not found")
            /\ calls' = <<"getNftInfo">> /\ builder' = builder
       ELSE IF ~HasListingPrice(market)
       THEN Respond(422, NoTx, "not listed for sale")
            /\ calls' = <<"getNftInfo">> /\ builder' = builder
       ELSE createBuyNftTransaction(market.onchainId, req.account,
                                    ToNumber(market.listing.price))
    /\ UNCHANGED <<calc, market, chain, req, extcall>>

\* route.ts 180-224: POST /item/{itemId}/offer of the first handler set
V1Offer ==
    /\ pc = "recv" /\ req.route = "v1offer"
    /\ itemDetails' = market
    /\ IF market.k = "none"
       THEN Respond(422, NoTx, "not found")
            /\ calls' = <<"getNftInfo">> /\ builder' = builder
       ELSE createBidNftTransaction(market.onchainId, req.account,
                                    MulLamportsPerSol(req.offerNumber))
    /\ UNCHANGED <<calc, market, chain, req, extcall>>

\* part_000 prepareTransaction after its await, and the handler's tail
PrepareTransaction ==
    /\ pc = "prepare"
    /\ \E fetched \in BOOLEAN :
         IF fetched
         THEN LET envelope == [k |-> "envelope", payerKey |-> builder.buyer,
                               recentBlockhash |-> chain,
                               instructions |-> builder.instructions]
              IN  /\ builder' = [builder EXCEPT !.blockhash = chain,
                                                !.transaction = envelope]
                  /\ Respond(200, envelope, "")
         ELSE /\ builder' = builder
              /\ Respond500("UpstreamUnavailable")
    /\ UNCHANGED <<calc, market, chain, req, itemDetails, extcall, calls>>

----------------------------------------------------------------------------
(* The second handler set (route.ts 228-503) and transaction-utils.ts *)

\* what the marketplace API (getNftBuyTransaction, placeNftBid) answers for a call:
\* a serialized transaction made from the arguments it was given
ApiTransaction(call) ==
    [k |-> "api", fn |-> call.fn, target |-> call.target, from |-> call.buyerAddress,
     to |-> call.ownerAddress, amount |-> call.price, recentBlockhash |-> call.latestBlockhash]

\* route.ts 325-359: POST /item/{itemId}/buy up to the first await of
\* transaction-utils.ts createBuyNftTransaction(mint, buyerAddress)
V2Buy ==
    /\ pc = "recv" /\ req.route = "v2buy"
    /\ itemDetails' = market
    /\ IF market.k = "none"
       THEN Respond(422, NoTx, "not found")
            /\ calls' = <<"getNftInfo">> /\ builder' = builder
       ELSE IF ~HasListingPrice(market)
       THEN Respond(422, NoTx, "not listed for sale")
            /\ calls' = <<"getNftInfo">> /\ builder' = builder
       ELSE /\ builder' = [NoBuilder EXCEPT !.fn = "utils.createBuyNftTransaction",
                                            !.mint = market.onchainId,
                                            !.buyer = req.account]
            /\ calls' = <<"getNftInfo", "getLatestBlockhash">>
            /\ response' = response /\ caught' = caught
            /\ pc' = "v2b_blockhash"
    /\ UNCHANGED <<calc, market, chain, req, extcall>>

\* transaction-utils.ts 12-18: the blockhash arrives (or the fetch fails), then the
\* listing is looked up again
V2BuyBlockhash ==
    /\ pc = "v2b_blockhash"
    /\ \E fetched \in BOOLEAN :
         IF fetched
         THEN /\ builder' = [builder EXCEPT !.blockhash = chain]
              /\ calls' = Append(calls, "getNftInfo")
              /\ response' = response /\ caught' = caught
              /\ pc' = "v2b_lookup2"
         ELSE /\ builder' = builder
              /\ calls' = calls
              /\ Respond500("UpstreamUnavailable")
    /\ UNCHANGED <<calc, market, chain, req, itemDetails, extcall>>

\* transaction-utils.ts 26-29: getTotalPrice is called with two arguments, so its
\* third parameter, tokenStandard, is undefined
TotalPriceOf(item) ==
    getTotalPrice(parseInt(item.listing.price), item.sellRoyaltyFeeBPS, "undefined")

\* as PricedSnapshot, pricing the route handler's earlier snapshot
PricedSnapshotFirst(first, second) == first

\* which lookup's snapshot the price and the seller are taken from
PricedSnapshot(first, second) == second

\* transaction-utils.ts 21: the guard on the second lookup
SecondLookupMissing(item) == item.k = "none" \/ item.listing.k = "none"

\* transaction-utils.ts 18-38: the second lookup's result, pricing, and the call of the
\* marketplace API's transaction builder
V2BuyLookup2 ==
    /\ pc = "v2b_lookup2"
    /\ IF SecondLookupMissing(market)
       THEN /\ builder' = [builder EXCEPT !.itemDetails = market]
            /\ extcall' = extcall
            /\ calls' = calls
            /\ Respond500("Item details or listing not found")
       ELSE LET snap  == PricedSnapshot(itemDetails, market)
                total == TotalPriceOf(snap)
            IN  /\ builder' = [builder EXCEPT !.itemDetails = market, !.priced = TRUE,
                                              !.totalPrice = total]
                /\ extcall' = [fn |-> "getNftBuyTransaction", target |-> builder.mint,
                               ownerAddress |-> snap.listing.seller,
                               buyerAddress |-> builder.buyer, price |-> total,
                               latestBlockhash |-> builder.blockhash]
                /\ calls' = Append(calls, "getNftBuyTransaction")
                /\ response' = response /\ caught' = caught
                /\ pc' = "v2b_build"
    /\ UNCHANGED <<calc, market, chain, req, itemDetails>>

\* transaction-utils.ts 32-46 and route.ts 359-380: the API's answer and the response
V2BuyBuild ==
    /\ pc = "v2b_build"
    /\ \E answer \in {"transaction", "null", "throws"} :
         IF answer = "transaction"
         THEN /\ builder' = [builder EXCEPT !.transaction = ApiTransaction(extcall)]
              /\ Respond(200, ApiTransaction(extcall), "")
         ELSE /\ builder' = builder
              /\ Respond500(IF answer = "null" THEN "Failed to create transaction"
                            ELSE "UpstreamUnavailable")
    /\ UNCHANGED <<calc, market, chain, req, itemDetails, extcall, calls>>

\* route.ts 431: the check of the offerAmount path parameter
OfferParamInvalid(param) == param = <<>> \/ isNaN(parseFloat(param))

\* route.ts 416-461: POST /item/{itemId}/offer/{offerAmount} up to the blockhash await
V2Offer ==
    /\ pc = "recv" /\ req.route = "v2offer"
    /\ IF OfferParamInvalid(req.offerParam)
       THEN /\ Respond(400, NoTx, "Offer amount is not a valid number")
            /\ calls' = calls /\ itemDetails' = itemDetails
       ELSE IF market.k = "none"
       THEN /\ Respond(422, NoTx, "not found")
            /\ calls' = <<"getNftInfo">> /\ itemDetails' = market
       ELSE /\ calls' = <<"getNftInfo", "getLatestBlockhash">>
            /\ itemDetails' = market
            /\ response' = response /\ caught' = caught
            /\ pc' = "v2o_blockhash"
    /\ UNCHANGED <<calc, market, chain, req, builder, extcall>>

\* route.ts 461-477: the blockhash arrives, the offer is converted and placeNftBid called
V2OfferBlockhash ==
    /\ pc = "v2o_blockhash"
    /\ \E fetched \in BOOLEAN :
         LET priceInLamports == MulLamportsPerSol(parseFloat(req.offerParam))
         IN  IF ~fetched \/ isNaN(priceInLamports)
             THEN /\ extcall' = extcall /\ calls' = calls
                  /\ Respond500(IF fetched THEN "Price in Lamports is not a valid number"
                                ELSE "UpstreamUnavailable")
             ELSE /\ extcall' = [fn |-> "placeNftBid", target |-> itemDetails.onchainId,
                                 ownerAddress |-> itemDetails.owner,
                                 buyerAddress |-> req.account, price |-> priceInLamports,
                                 latestBlockhash |-> chain]
                  /\ calls' = Append(calls, "placeNftBid")
                  /\ response' = response /\ caught' = caught
                  /\ pc' = "v2o_build"
    /\ UNCHANGED <<calc, market, chain, req, itemDetails, builder>>

\* route.ts 471-500: the API's answer and the response
V2OfferBuild ==
    /\ pc = "v2o_build"
    /\ \E answer \in {"transaction", "null", "throws"} :
         IF answer = "transaction"
         THEN Respond(200, ApiTransaction(extcall), "")
         ELSE Respond500(IF answer = "null" THEN "Failed to create transaction"
                         ELSE "UpstreamUnavailable")
    /\ UNCHANGED <<calc, market, chain, req, itemDetails, builder, extcall, calls>>

----------------------------------------------------------------------------
(* The environment, while a request is suspended at an await *)

InFlight == pc \notin {"recv", "done", "idle"}

\* the marketplace relists, delists or drops the item
MarketChanges ==
    /\ InFlight /\ market.k = "item"
    /\ \E m \in {NoItem} \cup {[market EXCEPT !.listing = l] : l \in Listings} :
         /\ m # market
         /\ market' = m
    /\ UNCHANGED <<calc, chain, req, pc, itemDetails, builder, extcall, response, caught, calls>>

\* the ledger produces a block: the recent blockhash changes
NewBlock ==
    /\ InFlight /\ chain < MaxBlock
    /\ chain' = chain + 1
    /\ UNCHANGED <<calc, market, req, pc, itemDetails, builder, extcall, response, caught, calls>>

Next ==
    \/ V1Buy
    \/ V1Offer
    \/ PrepareTransaction
    \/ V2Buy
    \/ V2BuyBlockhash
    \/ V2BuyLookup2
    \/ V2BuyBuild
    \/ V2Offer
    \/ V2OfferBlockhash
    \/ V2OfferBuild
    \/ MarketChanges
    \/ NewBlock

Spec == Init /\ [][Next]_vars

----------------------------------------------------------------------------
(* Vocabulary of the properties *)

\* the amount, source and destination of the transfer a transaction makes
TxAmount(tx) == IF tx.k = "envelope" THEN tx.instructions[1].lamports ELSE tx.amount

TxFrom(tx) == IF tx.k = "envelope" THEN tx.instructions[1].fromPubkey ELSE tx.from

TxTo(tx) == IF tx.k = "envelope" THEN tx.instructions[1].toPubkey ELSE tx.to

\* a fixed-length, fixed-alphabet account identifier
WellFormed(a) == a.base58 /\ a.bytes = 32

\* the asset's transfer type carries royalties
RoyaltiesApply(item) == item.tokenStandard = "NonFungible"

\* the item is offered at a price
ForSale(item) == item.k = "item" /\ item.listing.k = "listing" /\ item.listing.price # <<>>

NonNegativeInteger(x) == x.k = "num" /\ ~x.neg /\ (x.e9 > 0 \/ x.frac = 0)

Positive(x) == x.k = "num" /\ ~x.neg /\ (x.whole > 0 \/ x.frac > 0)

TransferBuilders == {"createBuyNftTransaction", "createBidNftTransaction"}

BuyRoutes == {"v1buy", "v2buy"}

----------------------------------------------------------------------------
(* Pricing *)

\* C1: for every non-negative integer price, every royalty rate in 0..10000 and either
\* applicability, the total returned by getTotalPrice is basePrice + marketplaceFee +
\* royaltyFee, and each of the three components is a non-negative integer.
C1_TotalIsSumOfIntegerComponents ==
    calc.done =>
        LET basePrice == IntNum(calc.price)
            fee       == marketPlaceFee(basePrice)
            roy       == royalty(basePrice, calc.royaltyBps, calc.tokenStandard)
        IN  /\ calc.total = Add(Add(basePrice, fee), roy)
            /\ NonNegativeInteger(basePrice)
            /\ NonNegativeInteger(fee)
            /\ NonNegativeInteger(roy)

\* C2: the marketplace fee is price * 150 / 10000 truncated toward zero, so the fee and
\* the total are whole numbers of lamports, also when price * 150 is no multiple of 10000.
C2_MarketplaceFeeTruncated ==
    calc.done =>
        /\ marketPlaceFee(IntNum(calc.price)) = IntNum((calc.price * 150) \div 10000)
        /\ NonNegativeInteger(calc.total)

\* C3: in the buy flow the royalty fee included in the total is the truncated
\* price * royaltyRateBps / 10000 when the asset's transfer type carries royalties and 0
\* otherwise; a listing at 1_000_000 with a 500 bps royalty that applies is handed to the
\* buy-transaction builder as 1_065_000; without royalties the total is
\* price + price * 150 / 10000.
C3_RoyaltyInBuyTotal ==
    extcall.fn = "getNftBuyTransaction" =>
        LET item  == builder.itemDetails
            price == parseInt(item.listing.price)
            fee   == marketPlaceFee(price)
            due   == IF RoyaltiesApply(item)
                     THEN Trunc(MulDivBps(price, item.sellRoyaltyFeeBPS))
                     ELSE IntNum(0)
        IN  /\ extcall.price = Add(Add(price, due), fee)
            /\ (price = IntNum(1000000) /\ item.sellRoyaltyFeeBPS = 500 /\ RoyaltiesApply(item))
                   => extcall.price = IntNum(1065000)
            /\ ~RoyaltiesApply(item) => extcall.price = Add(price, fee)

----------------------------------------------------------------------------
(* Transaction building *)

\* C4: for every well-formed payer and recipient, every positive amount and every
\* blockhash, createBuyNftTransaction and createBidNftTransaction produce an envelope of
\* exactly one instruction whose transfer amount equals the amount passed in, unchanged.
C4_TransferAmountUnchanged ==
    (/\ builder.fn \in TransferBuilders
     /\ builder.transaction.k = "envelope"
     /\ WellFormed(builder.buyer) /\ WellFormed(builder.mint)
     /\ Positive(builder.amount))
    => /\ Len(builder.transaction.instructions) = 1
       /\ builder.transaction.instructions[1].lamports = builder.amount

\* C5: on every successful buy request the amount the returned transaction moves is the
\* total the pricing function computed from the listing's price and royalty rate, the
\* transfer goes from the buyer to the listing's seller, and the price never reaches the
\* transaction builder without passing through the pricing function.
C5_BuyTransfersPricedTotalToSeller ==
    (req.route \in BuyRoutes /\ pc = "done" /\ response.status = 200)
    => /\ builder.priced
       /\ TxAmount(response.transaction) = builder.totalPrice
       /\ TxFrom(response.transaction) = req.account
       /\ TxTo(response.transaction) = itemDetails.listing.seller

\* C6: every envelope references one blockhash obtained immediately before construction:
\* in every buy and offer flow the blockhash fetch is the last external call before the
\* transaction is built, no other collaborator fetch coming in between.
C6_BlockhashFetchedLast ==
    /\ builder.transaction.k = "envelope"
           => /\ calls[Len(calls)] = "getLatestBlockhash"
              /\ builder.transaction.recentBlockhash = builder.blockhash
    /\ \A i \in 1..Len(calls) :
           calls[i] \in {"getNftBuyTransaction", "placeNftBid"}
               => i > 1 /\ calls[i - 1] = "getLatestBlockhash"

----------------------------------------------------------------------------
(* Errors *)

\* the offer amount of the request, as the handler reads it
OfferAmount ==
    IF req.route = "v1offer" THEN req.offerNumber
    ELSE IF req.offerParam = <<>> THEN NaN ELSE parseFloat(req.offerParam)

InvalidOffer == ~isFinite(OfferAmount) \/ IsNegative(OfferAmount)

\* C7: an offer request whose amount is negative, not a number or not finite fails with
\* an invalid-amount error and builds no bid transaction: the bid builder (placeNftBid,
\* createBidNftTransaction) is never invoked with a negative or non-finite amount.
C7_InvalidOfferNeverReachesBidBuilder ==
    /\ builder.fn = "createBidNftTransaction"
           => isFinite(builder.amount) /\ ~IsNegative(builder.amount)
    /\ extcall.fn = "placeNftBid"
           => isFinite(extcall.price) /\ ~IsNegative(extcall.price)
    /\ (req.route \in {"v1offer", "v2offer"} /\ InvalidOffer /\ pc = "done")
           => response.transaction = NoTx

\* C8: a transfer-transaction builder called with a malformed payer or recipient fails
\* with an invalid-account error before any instruction is constructed and before the
\* blockhash is fetched, returns no envelope, and the HTTP request ends in an error
\* response that carries no transaction.
C8_MalformedAccountFailsEarly ==
    (/\ builder.fn \in TransferBuilders
     /\ ~WellFormed(builder.buyer) \/ ~WellFormed(builder.mint))
    => /\ caught = "InvalidAccount"
       /\ builder.instructions = <<>>
       /\ builder.blockhash = -1
       /\ \A i \in 1..Len(calls) : calls[i] # "getLatestBlockhash"
       /\ builder.transaction = NoTx
       /\ pc = "done"
       /\ response.status = 500
       /\ response.transaction = NoTx
       /\ response.message # ""

\* a transfer builder was called with a well-formed payer and a malformed recipient
C8_Witness ==
    /\ builder.fn \in TransferBuilders
    /\ WellFormed(builder.buyer) /\ ~WellFormed(builder.mint)
    /\ pc = "done"

\* the three failures C9 is about, as the finished request shows them
LookupFoundNothing == calls # <<>> /\ itemDetails.k = "none"

NotListed == req.route \in BuyRoutes /\ itemDetails.k = "item" /\ ~ForSale(itemDetails)

BlockhashFetchFailed ==
    /\ caught = "UpstreamUnavailable"
    /\ calls # <<>> /\ calls[Len(calls)] = "getLatestBlockhash"

\* a response carries a complete transaction, or only an error message
ResponseIsWhole ==
    \/ response.status = 200 /\ response.transaction # NoTx /\ response.message = ""
    \/ response.status # 200 /\ response.transaction = NoTx /\ response.message # ""

----------------------------------------------------------------------------
(* The two listing lookups of the buy flow *)

\* the second lookup has been answered
SecondLookupDone ==
    /\ req.route = "v2buy"
    /\ Len(calls) >= 3
    /\ pc # "v2b_lookup2"

\* C10: the buy flow looks the listing up twice and the listing may change in between;
\* under every interleaving a 200 response with a transaction is returned only if both
\* lookups found a listing, the price in the transaction is computed from the second
\* lookup's snapshot, and if the listing is gone at the second lookup the request ends
\* with status 500 and no transaction.
C10_SecondLookupDecidesPrice ==
    /\ (req.route = "v2buy" /\ pc = "done" /\ response.status = 200)
           => /\ response.transaction # NoTx
              /\ ForSale(itemDetails)
              /\ builder.itemDetails.k = "item"
              /\ builder.itemDetails.listing.k = "listing"
              /\ extcall.fn = "getNftBuyTransaction"
              /\ extcall.price = TotalPriceOf(builder.itemDetails)
              /\ extcall.ownerAddress = builder.itemDetails.listing.seller
              /\ response.transaction = ApiTransaction(extcall)
    /\ (/\ SecondLookupDone
        /\ builder.itemDetails.k = "none" \/ builder.itemDetails.listing.k = "none")
           => /\ pc = "done"
              /\ response.status = 500
              /\ response.transaction = NoTx

\* a buy succeeded although the price changed between the two lookups
C10_Witness ==
    /\ req.route = "v2buy" /\ pc = "done" /\ response.status = 200
    /\ itemDetails.listing.price # builder.itemDetails.listing.price
    /\ TotalPriceOf(itemDetails) # TotalPriceOf(builder.itemDetails)

\* the listing was there at the first lookup and gone at the second
C10_ListingGone ==
    /\ SecondLookupDone /\ pc = "done"
    /\ ForSale(itemDetails)
    /\ builder.itemDetails.listing.k = "none"

====
